---- MODULE Spec2Model ----
(***************************************************************************)
(* Klax 3D match simulation engine (src/games/klax-3d/js/game.js).         *)
(*                                                                         *)
(* The Game object is modelled field by field.  Every method of the class  *)
(* is an operator from a game record (the object `this`) to the game       *)
(* record it leaves behind; the public methods are the actions.            *)
(*                                                                         *)
(* Conveyor positions and tile speeds are kept in hundredths of a conveyor *)
(* unit, so that 0.15, 0.02, 0.4 and 10 of the source are 15, 2, 40 and    *)
(* 1000 here.                                                              *)
(***************************************************************************)
EXTENDS Integers, Sequences, FiniteSets, TLC

VARIABLES
    score,          \* this.score
    level,          \* this.level
    lives,          \* this.lives
    paused,         \* this.paused
    gameOver,       \* this.gameOver
    conveyorTiles,  \* this.conveyorTiles: sequence of [id, position, colorIndex, column]
    nextTileId,     \* this.nextTileId
    spawnTimer,     \* this.spawnTimer
    catcherColumn,  \* this.catcherColumn
    rack,           \* this.rack: sequence of colour indices, front first
    well,           \* this.well[col][row]: colour index or Null
    events,         \* this.events
    frameCount,     \* this.frameCount
    seed,           \* this.rng.seed
    ticks,          \* playing ticks run since the initial state (bounds the model)
    drops,          \* tiles dropped from the rack since the initial state (bounds the model)
    twin,           \* a second Game object, constructed with the same seed
    pending         \* the call the first object has made and the second has yet to make

gameVars == <<score, level, lives, paused, gameOver, conveyorTiles, nextTileId,
              spawnTimer, catcherColumn, rack, well, events, frameCount, seed>>

vars == <<score, level, lives, paused, gameOver, conveyorTiles, nextTileId,
          spawnTimer, catcherColumn, rack, well, events, frameCount, seed, ticks, drops,
          twin, pending>>

---------------------------------------------------------------------------
(* Game constants, game.js lines 7-16 *)

WELL_COLS == 5
WELL_ROWS == 5
RACK_CAPACITY == 5
CONVEYOR_LENGTH == 1000
INITIAL_LIVES == 3
LEVEL_UP_THRESHOLD == 1000
BASE_SPAWN_INTERVAL == 120
MIN_SPAWN_INTERVAL == 30
BASE_TILE_SPEED == 15
MAX_TILE_SPEED == 40
TILE_SPEED_STEP == 2
SPAWN_INTERVAL_STEP == 8
NUM_COLORS == 6
RNG_A == 9301
RNG_C == 49297
RNG_M == 233280

\* the empty well cell (null in the source)
Null == -1

Cols == 0 .. WELL_COLS - 1
Rows == 0 .. WELL_ROWS - 1

Min(a, b) == IF a < b THEN a ELSE b
Max(a, b) == IF a > b THEN a ELSE b

\* the record of the Game object's fields in the current state
This ==
    [score |-> score, level |-> level, lives |-> lives, paused |-> paused,
     gameOver |-> gameOver, conveyorTiles |-> conveyorTiles,
     nextTileId |-> nextTileId, spawnTimer |-> spawnTimer,
     catcherColumn |-> catcherColumn, rack |-> rack, well |-> well,
     events |-> events, frameCount |-> frameCount, seed |-> seed]

\* the fields of game record g become the next state
Commit(g) ==
    /\ score' = g.score
    /\ level' = g.level
    /\ lives' = g.lives
    /\ paused' = g.paused
    /\ gameOver' = g.gameOver
    /\ conveyorTiles' = g.conveyorTiles
    /\ nextTileId' = g.nextTileId
    /\ spawnTimer' = g.spawnTimer
    /\ catcherColumn' = g.catcherColumn
    /\ rack' = g.rack
    /\ well' = g.well
    /\ events' = g.events
    /\ frameCount' = g.frameCount
    /\ seed' = g.seed

EmptyWell == [c \in Cols |-> [r \in Rows |-> Null]]

\* reset that leaves the spawn timer running
resetKeepsSpawnTimer(g) ==
    [g EXCEPT !.score = 0, !.level = 1, !.lives = INITIAL_LIVES,
              !.paused = FALSE, !.gameOver = FALSE, !.conveyorTiles = <<>>,
              !.nextTileId = 0, !.catcherColumn = 2,
              !.rack = <<>>, !.well = EmptyWell, !.events = <<>>,
              !.frameCount = 0]

\* Game.reset: every field but rng
reset(g) ==
    [g EXCEPT !.score = 0, !.level = 1, !.lives = INITIAL_LIVES,
              !.paused = FALSE, !.gameOver = FALSE, !.conveyorTiles = <<>>,
              !.nextTileId = 0, !.spawnTimer = 0, !.catcherColumn = 2,
              !.rack = <<>>, !.well = EmptyWell, !.events = <<>>,
              !.frameCount = 0]

---------------------------------------------------------------------------
(* SeededRNG *)

\* (s * RNG_A) % RNG_M for 0 <= s < RNG_M, computed in two steps so that no
\* intermediate product leaves the 32-bit integers of the model checker (the
\* source multiplies in doubles, where the product is exact)
seedTimesA(s) ==
    (((s * (RNG_A \div 100)) % RNG_M) * 100 + s * (RNG_A % 100)) % RNG_M

\* SeededRNG.next: the new seed; the value returned is seed / 233280
rngNext(s) == (seedTimesA(s) + RNG_C) % RNG_M

\* nextInt with the factor max - min + 2: the value max + 1 can be returned
nextIntValueWide(s, min, max) == ((s * (max - min + 2)) \div RNG_M) + min

\* SeededRNG.nextInt(min, max) read on the seed that next() has just stored:
\* floor(seed / 233280 * (max - min + 1)) + min
nextIntValue(s, min, max) == ((s * (max - min + 1)) \div RNG_M) + min

---------------------------------------------------------------------------
(* Difficulty scaling *)

getSpawnInterval(g) ==
    Max(BASE_SPAWN_INTERVAL - (g.level - 1) * SPAWN_INTERVAL_STEP, MIN_SPAWN_INTERVAL)

\* getTileSpeed that starts one hundredth below the base speed
getTileSpeedSlow(g) ==
    Min(BASE_TILE_SPEED - 1 + (g.level - 1) * TILE_SPEED_STEP, MAX_TILE_SPEED)

getTileSpeed(g) ==
    Min(BASE_TILE_SPEED + (g.level - 1) * TILE_SPEED_STEP, MAX_TILE_SPEED)

getNumColors(g) == Min(3 + (g.level \div 3), NUM_COLORS)

---------------------------------------------------------------------------
(* Lives and level *)

pushEvent(g, e) == [g EXCEPT !.events = Append(@, e)]

\* loseLife with the game-over test written as lives < 0
loseLifeLateGameOver(g, reason) ==
    LET g1 == [g EXCEPT !.lives = @ - 1]
        g2 == pushEvent(g1, [type |-> "lifeLost", lives |-> g1.lives, reason |-> reason])
    IN  IF g2.lives < 0
        THEN pushEvent([g2 EXCEPT !.gameOver = TRUE],
                       [type |-> "gameOver", score |-> g2.score, level |-> g2.level])
        ELSE g2

\* loseLife with the game-over test written as lives <= 1
loseLifeEarlyGameOver(g, reason) ==
    LET g1 == [g EXCEPT !.lives = @ - 1]
        g2 == pushEvent(g1, [type |-> "lifeLost", lives |-> g1.lives, reason |-> reason])
    IN  IF g2.lives <= 1
        THEN pushEvent([g2 EXCEPT !.gameOver = TRUE],
                       [type |-> "gameOver", score |-> g2.score, level |-> g2.level])
        ELSE g2

loseLife(g, reason) ==
    LET g1 == [g EXCEPT !.lives = @ - 1]
        g2 == pushEvent(g1, [type |-> "lifeLost", lives |-> g1.lives, reason |-> reason])
    IN  IF g2.lives <= 0
        THEN pushEvent([g2 EXCEPT !.gameOver = TRUE],
                       [type |-> "gameOver", score |-> g2.score, level |-> g2.level])
        ELSE g2

\* checkLevelUp with the level computed from score - 1: the level changes one
\* point late
checkLevelUpLate(g) ==
    LET newLevel == ((g.score - 1) \div LEVEL_UP_THRESHOLD) + 1
    IN  IF newLevel > g.level
        THEN pushEvent([g EXCEPT !.level = newLevel],
                       [type |-> "levelUp", level |-> newLevel])
        ELSE g

\* checkLevelUp that climbs one level per scoring event
checkLevelUpStepwise(g) ==
    LET newLevel == (g.score \div LEVEL_UP_THRESHOLD) + 1
    IN  IF newLevel > g.level
        THEN pushEvent([g EXCEPT !.level = g.level + 1],
                       [type |-> "levelUp", level |-> g.level + 1])
        ELSE g

checkLevelUp(g) ==
    LET newLevel == (g.score \div LEVEL_UP_THRESHOLD) + 1
    IN  IF newLevel > g.level
        THEN pushEvent([g EXCEPT !.level = newLevel],
                       [type |-> "levelUp", level |-> newLevel])
        ELSE g

\* points of one match of the given size (checkMatches 229-232, checkRackMatches 358-361)
matchPoints(size) ==
    IF size = 3 THEN 100
    ELSE IF size = 4 THEN 300
    ELSE IF size >= 5 THEN 600
    ELSE 0

---------------------------------------------------------------------------
(* Catch / drop *)

\* Game.dropTileIntoWell: the loop tries rows WELL_ROWS-1 down to 0
RECURSIVE dropTileIntoWellFrom(_, _, _, _)
dropTileIntoWellFrom(g, col, colorIndex, row) ==
    IF row < 0 THEN loseLife(g, "Well column full")
    ELSE IF g.well[col][row] = Null
         THEN [g EXCEPT !.well[col][row] = colorIndex]
         ELSE dropTileIntoWellFrom(g, col, colorIndex, row - 1)

\* dropTileIntoWell that puts the tile on the top cell of a full column
dropTileIntoWellOnTop(g, col, colorIndex) ==
    IF \A row \in Rows : g.well[col][row] # Null
    THEN [g EXCEPT !.well[col][0] = colorIndex]
    ELSE dropTileIntoWellFrom(g, col, colorIndex, WELL_ROWS - 1)

dropTileIntoWell(g, col, colorIndex) ==
    dropTileIntoWellFrom(g, col, colorIndex, WELL_ROWS - 1)

\* the inner while loop of checkRackMatches: length of the run that starts at
\* 0-based index start
RECURSIVE rackRunLength(_, _, _)
rackRunLength(r, start, length) ==
    IF start + length < Len(r) /\ r[start + length + 1] = r[start + 1]
    THEN rackRunLength(r, start, length + 1)
    ELSE length

\* Array.splice(start, length) on a sequence, start 0-based: what is left
spliceOut(r, start, length) ==
    SubSeq(r, 1, start) \o SubSeq(r, start + length + 1, Len(r))

RECURSIVE checkRackMatchesFrom(_, _)
\* checkRackMatches that never looks at the rack
checkRackMatchesNever(g) == g

checkRackMatches(g) ==
    IF Len(g.rack) < 3 THEN g ELSE checkRackMatchesFrom(g, 0)

\* the for loop of checkRackMatches without the call of checkRackMatches that
\* follows a removed run: one run is removed per call
checkRackMatchesOnce(g, start) ==
    IF start > Len(g.rack) - 3 THEN g
    ELSE LET color == g.rack[start + 1]
             length == rackRunLength(g.rack, start, 1)
         IN  IF length >= 3
             THEN LET matched == SubSeq(g.rack, start + 1, start + length)
                      points == matchPoints(length)
                      g1 == [g EXCEPT !.rack = spliceOut(@, start, length),
                                      !.score = @ + points]
                      g2 == pushEvent(g1,
                              [type |-> "match",
                               matches |-> <<[type |-> "rack", tiles |-> matched,
                                              colorIndex |-> color]>>,
                               points |-> points])
                  IN  checkLevelUp(g2)
             ELSE checkRackMatchesFrom(g, start + 1)

\* the for loop of checkRackMatches at index start
checkRackMatchesFrom(g, start) ==
    IF start > Len(g.rack) - 3 THEN g
    ELSE LET color == g.rack[start + 1]
             length == rackRunLength(g.rack, start, 1)
         IN  IF length >= 3
             THEN LET matched == SubSeq(g.rack, start + 1, start + length)
                      points == matchPoints(length)
                      g1 == [g EXCEPT !.rack = spliceOut(@, start, length),
                                      !.score = @ + points]
                      g2 == pushEvent(g1,
                              [type |-> "match",
                               matches |-> <<[type |-> "rack", tiles |-> matched,
                                              colorIndex |-> color]>>,
                               points |-> points])
                      g3 == checkLevelUp(g2)
                  IN  IF Len(g3.rack) < 3 THEN g3 ELSE checkRackMatchesFrom(g3, 0)
             ELSE checkRackMatchesFrom(g, start + 1)

\* handleTileReachedEnd with the capacity test written as <=
handleTileReachedEndOneMore(g, tile) ==
    IF tile.column = g.catcherColumn
    THEN IF Len(g.rack) <= RACK_CAPACITY
         THEN checkRackMatches(
                  pushEvent([g EXCEPT !.rack = Append(@, tile.colorIndex)],
                            [type |-> "catch", colorIndex |-> tile.colorIndex]))
         ELSE loseLife(g, "Rack overflow")
    ELSE pushEvent(dropTileIntoWell(g, tile.column, tile.colorIndex),
                   [type |-> "tileFall", column |-> tile.column,
                    colorIndex |-> tile.colorIndex])

\* handleTileReachedEnd that lets a missed tile fall on the catcher's column
handleTileReachedEndAtCatcher(g, tile) ==
    IF tile.column = g.catcherColumn
    THEN IF Len(g.rack) < RACK_CAPACITY
         THEN checkRackMatches(
                  pushEvent([g EXCEPT !.rack = Append(@, tile.colorIndex)],
                            [type |-> "catch", colorIndex |-> tile.colorIndex]))
         ELSE loseLife(g, "Rack overflow")
    ELSE pushEvent(dropTileIntoWell(g, g.catcherColumn, tile.colorIndex),
                   [type |-> "tileFall", column |-> tile.column,
                    colorIndex |-> tile.colorIndex])

handleTileReachedEnd(g, tile) ==
    IF tile.column = g.catcherColumn
    THEN IF Len(g.rack) < RACK_CAPACITY
         THEN checkRackMatches(
                  pushEvent([g EXCEPT !.rack = Append(@, tile.colorIndex)],
                            [type |-> "catch", colorIndex |-> tile.colorIndex]))
         ELSE loseLife(g, "Rack overflow")
    ELSE pushEvent(dropTileIntoWell(g, tile.column, tile.colorIndex),
                   [type |-> "tileFall", column |-> tile.column,
                    colorIndex |-> tile.colorIndex])

---------------------------------------------------------------------------
(* Conveyor / spawn *)

\* spawnTile that draws from one RNG shared by all Game objects (the seed of
\* the first object) and not from the object's own
spawnTileSharedRng(g) ==
    LET numColors == getNumColors(g)
        s1 == rngNext(seed)
        colorIndex == nextIntValue(s1, 0, numColors - 1)
        s2 == rngNext(s1)
        column == nextIntValue(s2, 0, WELL_COLS - 1)
        tile == [id |-> g.nextTileId, position |-> 0,
                 colorIndex |-> colorIndex, column |-> column]
    IN  pushEvent([g EXCEPT !.seed = s2, !.nextTileId = @ + 1,
                            !.conveyorTiles = Append(@, tile)],
                  [type |-> "tileSpawn", tile |-> tile.id])

\* spawnTile that hands out the same id again: nextTileId is not incremented
spawnTileSameId(g) ==
    LET numColors == getNumColors(g)
        s1 == rngNext(g.seed)
        colorIndex == nextIntValue(s1, 0, numColors - 1)
        s2 == rngNext(s1)
        column == nextIntValue(s2, 0, WELL_COLS - 1)
        tile == [id |-> g.nextTileId, position |-> 0,
                 colorIndex |-> colorIndex, column |-> column]
    IN  pushEvent([g EXCEPT !.seed = s2, !.conveyorTiles = Append(@, tile)],
                  [type |-> "tileSpawn", tile |-> tile.id])

\* Game.spawnTile; the TILE_SPAWN event holds the tile object, named by its id
spawnTile(g) ==
    LET numColors == getNumColors(g)
        s1 == rngNext(g.seed)
        colorIndex == nextIntValue(s1, 0, numColors - 1)
        s2 == rngNext(s1)
        column == nextIntValue(s2, 0, WELL_COLS - 1)
        tile == [id |-> g.nextTileId, position |-> 0,
                 colorIndex |-> colorIndex, column |-> column]
    IN  pushEvent([g EXCEPT !.seed = s2, !.nextTileId = @ + 1,
                            !.conveyorTiles = Append(@, tile)],
                  [type |-> "tileSpawn", tile |-> tile.id])

\* updateSpawning that spawns one tick late: the timer has to exceed the interval
updateSpawningLate(g) ==
    LET g1 == [g EXCEPT !.spawnTimer = @ + 1]
    IN  IF g1.spawnTimer > getSpawnInterval(g1)
        THEN spawnTile([g1 EXCEPT !.spawnTimer = 0])
        ELSE g1

updateSpawning(g) ==
    LET g1 == [g EXCEPT !.spawnTimer = @ + 1]
    IN  IF g1.spawnTimer >= getSpawnInterval(g1)
        THEN spawnTile([g1 EXCEPT !.spawnTimer = 0])
        ELSE g1

\* the for loop of updateConveyor at 0-based index i, counting down
RECURSIVE updateConveyorFrom(_, _, _)
updateConveyorFrom(g, speed, i) ==
    IF i < 0 THEN g
    ELSE LET tile == [g.conveyorTiles[i + 1] EXCEPT !.position = @ + speed]
             g1 == [g EXCEPT !.conveyorTiles[i + 1] = tile]
         IN  IF tile.position >= CONVEYOR_LENGTH
             THEN updateConveyorFrom(
                      handleTileReachedEnd(
                          [g1 EXCEPT !.conveyorTiles = spliceOut(@, i, 1)], tile),
                      speed, i - 1)
             ELSE updateConveyorFrom(g1, speed, i - 1)

\* updateConveyor with a loop that counts up and steps on after a removal
RECURSIVE updateConveyorUp(_, _, _)
updateConveyorUp(g, speed, i) ==
    IF i >= Len(g.conveyorTiles) THEN g
    ELSE LET tile == [g.conveyorTiles[i + 1] EXCEPT !.position = @ + speed]
             g1 == [g EXCEPT !.conveyorTiles[i + 1] = tile]
         IN  IF tile.position >= CONVEYOR_LENGTH
             THEN updateConveyorUp(
                      handleTileReachedEnd(
                          [g1 EXCEPT !.conveyorTiles = spliceOut(@, i, 1)], tile),
                      speed, i + 1)
             ELSE updateConveyorUp(g1, speed, i + 1)

updateConveyorForward(g) == updateConveyorUp(g, getTileSpeed(g), 0)

updateConveyor(g) ==
    updateConveyorFrom(g, getTileSpeed(g), Len(g.conveyorTiles) - 1)

---------------------------------------------------------------------------
(* Match detection and resolution *)

\* the while loops of findMatches: length of the run of w[col][row]'s colour
\* from (col, row) in direction (dc, dr), inside the grid
RECURSIVE runLength(_, _, _, _, _, _)
runLength(w, col, row, dc, dr, length) ==
    IF /\ col + dc * length \in Cols
       /\ row + dr * length \in Rows
       /\ w[col + dc * length][row + dr * length] = w[col][row]
    THEN runLength(w, col, row, dc, dr, length + 1)
    ELSE length

\* the match object pushed for a run of the given length
matchOf(w, kind, col, row, dc, dr, length) ==
    [type |-> kind,
     tiles |-> [i \in 1 .. length |-> <<col + dc * (i - 1), row + dr * (i - 1)>>],
     colorIndex |-> w[col][row]]

\* horizontal scan of one row from column col (lines 252-269): a found run is
\* skipped
RECURSIVE scanRow(_, _, _)
scanRow(w, row, col) ==
    IF col > WELL_COLS - 3 THEN <<>>
    ELSE IF w[col][row] = Null THEN scanRow(w, row, col + 1)
    ELSE LET length == runLength(w, col, row, 1, 0, 1)
         IN  IF length >= 3
             THEN <<matchOf(w, "horizontal", col, row, 1, 0, length)>>
                      \o scanRow(w, row, col + length)
             ELSE scanRow(w, row, col + 1)

\* vertical scan of one column from row `row` (lines 274-291): a found run is
\* skipped
RECURSIVE scanCol(_, _, _)
scanCol(w, col, row) ==
    IF row > WELL_ROWS - 3 THEN <<>>
    ELSE IF w[col][row] = Null THEN scanCol(w, col, row + 1)
    ELSE LET length == runLength(w, col, row, 0, 1, 1)
         IN  IF length >= 3
             THEN <<matchOf(w, "vertical", col, row, 0, 1, length)>>
                      \o scanCol(w, col, row + length)
             ELSE scanCol(w, col, row + 1)

\* diagonal scans of one column from row `row` (lines 296-313 and 318-335):
\* every start cell is tried, nothing is skipped
RECURSIVE scanDiag(_, _, _, _, _)
scanDiag(w, kind, dc, col, row) ==
    IF row > WELL_ROWS - 3 THEN <<>>
    ELSE IF w[col][row] = Null THEN scanDiag(w, kind, dc, col, row + 1)
    ELSE LET length == runLength(w, col, row, dc, 1, 1)
         IN  IF length >= 3
             THEN <<matchOf(w, kind, col, row, dc, 1, length)>>
                      \o scanDiag(w, kind, dc, col, row + 1)
             ELSE scanDiag(w, kind, dc, col, row + 1)

\* the matches of the four scans, in the order the source pushes them
horizontalMatches(w) ==
    scanRow(w, 0, 0) \o scanRow(w, 1, 0) \o scanRow(w, 2, 0) \o scanRow(w, 3, 0)
        \o scanRow(w, 4, 0)

verticalMatches(w) ==
    scanCol(w, 0, 0) \o scanCol(w, 1, 0) \o scanCol(w, 2, 0) \o scanCol(w, 3, 0)
        \o scanCol(w, 4, 0)

diagonalDrMatches(w) ==
    scanDiag(w, "diagonal-dr", 1, 0, 0) \o scanDiag(w, "diagonal-dr", 1, 1, 0)
        \o scanDiag(w, "diagonal-dr", 1, 2, 0)

diagonalDlMatches(w) ==
    scanDiag(w, "diagonal-dl", -1, 2, 0) \o scanDiag(w, "diagonal-dl", -1, 3, 0)
        \o scanDiag(w, "diagonal-dl", -1, 4, 0)

findMatches(w) ==
    horizontalMatches(w) \o verticalMatches(w) \o diagonalDrMatches(w)
        \o diagonalDlMatches(w)

RECURSIVE sumPoints(_, _)
sumPoints(matches, m) ==
    IF m > Len(matches) THEN 0
    ELSE matchPoints(Len(matches[m].tiles)) + sumPoints(matches, m + 1)

\* one column after applyGravity: the non-empty colours, bottom first, are
\* written back from the bottom row up
RECURSIVE compactedFrom(_, _)
compactedFrom(column, row) ==
    IF row < 0 THEN <<>>
    ELSE IF column[row] # Null
         THEN <<column[row]>> \o compactedFrom(column, row - 1)
         ELSE compactedFrom(column, row - 1)

\* applyGravity that leaves the cleared cells where they are
applyGravityNone(w) == w

\* applyGravity that writes the colours back in the order it collected them,
\* from the top row down
applyGravityFlipped(w) ==
    [col \in Cols |->
        LET compacted == compactedFrom(w[col], WELL_ROWS - 1)
        IN  [row \in Rows |->
                LET index == row - (WELL_ROWS - Len(compacted))
                IN  IF index >= 0 THEN compacted[index + 1] ELSE Null]]

applyGravity(w) ==
    [col \in Cols |->
        LET compacted == compactedFrom(w[col], WELL_ROWS - 1)
        IN  [row \in Rows |->
                LET index == WELL_ROWS - 1 - row
                IN  IF index < Len(compacted) THEN compacted[index + 1] ELSE Null]]

\* what checkMatches does with the runs it has found (lines 217-243)
resolveMatches(g, matches) ==
    LET removed == UNION {{matches[m].tiles[i] : i \in DOMAIN matches[m].tiles} :
                           m \in DOMAIN matches}
        cleared == [col \in Cols |-> [row \in Rows |->
                      IF <<col, row>> \in removed THEN Null ELSE g.well[col][row]]]
        points == sumPoints(matches, 1)
        g1 == pushEvent([g EXCEPT !.well = cleared, !.score = @ + points],
                        [type |-> "match", matches |-> matches, points |-> points])
    IN  checkLevelUp([g1 EXCEPT !.well = applyGravity(@)])

\* checkMatches that scans the compacted well once more in the same tick
checkMatchesTwice(g) ==
    LET scan(h) == IF Len(findMatches(h.well)) > 0
                   THEN resolveMatches(h, findMatches(h.well)) ELSE h
    IN  CHOOSE twice \in {scan(once) : once \in {scan(g)}} : TRUE

checkMatches(g) ==
    LET matches == findMatches(g.well)
    IN  IF Len(matches) > 0
        THEN LET removed == UNION {{matches[m].tiles[i] : i \in DOMAIN matches[m].tiles} :
                                    m \in DOMAIN matches}
                 cleared == [col \in Cols |-> [row \in Rows |->
                               IF <<col, row>> \in removed THEN Null ELSE g.well[col][row]]]
                 points == sumPoints(matches, 1)
                 g1 == pushEvent([g EXCEPT !.well = cleared, !.score = @ + points],
                                 [type |-> "match", matches |-> matches, points |-> points])
             IN  checkLevelUp([g1 EXCEPT !.well = applyGravity(@)])
        ELSE g

---------------------------------------------------------------------------
(* Public methods: the game record left behind and the value returned *)

\* a playing update() up to the call of checkMatches (lines 97-104)
afterConveyor(g) ==
    updateConveyor(updateSpawning([g EXCEPT !.frameCount = @ + 1, !.events = <<>>]))

\* update that returns early only when paused
updateWhenOver(g) ==
    IF g.paused THEN g ELSE checkMatches(afterConveyor(g))

\* update that returns early only when the game is over
updateWhenPaused(g) ==
    IF g.gameOver THEN g ELSE checkMatches(afterConveyor(g))

update(g) ==
    IF g.paused \/ g.gameOver THEN g ELSE checkMatches(afterConveyor(g))

moveLeft(g) ==
    IF ~g.paused /\ ~g.gameOver /\ g.catcherColumn > 0
    THEN [game |-> [g EXCEPT !.catcherColumn = @ - 1], ret |-> TRUE]
    ELSE [game |-> g, ret |-> FALSE]

\* moveRight without the test of the right bound
moveRightUnclamped(g) ==
    IF ~g.paused /\ ~g.gameOver
    THEN [game |-> [g EXCEPT !.catcherColumn = @ + 1], ret |-> TRUE]
    ELSE [game |-> g, ret |-> FALSE]

moveRight(g) ==
    IF ~g.paused /\ ~g.gameOver /\ g.catcherColumn < WELL_COLS - 1
    THEN [game |-> [g EXCEPT !.catcherColumn = @ + 1], ret |-> TRUE]
    ELSE [game |-> g, ret |-> FALSE]

\* dropFromRack that takes the entry at the back of the rack
dropFromRackBack(g) ==
    IF ~g.paused /\ ~g.gameOver /\ Len(g.rack) > 0
    THEN LET colorIndex == g.rack[Len(g.rack)]
             g1 == dropTileIntoWell([g EXCEPT !.rack = SubSeq(@, 1, Len(@) - 1)],
                                    g.catcherColumn, colorIndex)
         IN  [game |-> pushEvent(g1, [type |-> "drop", column |-> g1.catcherColumn,
                                      colorIndex |-> colorIndex]),
              ret |-> TRUE]
    ELSE [game |-> g, ret |-> FALSE]

dropFromRack(g) ==
    IF ~g.paused /\ ~g.gameOver /\ Len(g.rack) > 0
    THEN LET colorIndex == Head(g.rack)
             g1 == dropTileIntoWell([g EXCEPT !.rack = Tail(@)],
                                    g.catcherColumn, colorIndex)
         IN  [game |-> pushEvent(g1, [type |-> "drop", column |-> g1.catcherColumn,
                                      colorIndex |-> colorIndex]),
              ret |-> TRUE]
    ELSE [game |-> g, ret |-> FALSE]

togglePause(g) ==
    IF ~g.gameOver THEN [g EXCEPT !.paused = ~@] ELSE g

getEvents(g) == g.events

\* App.update, one tick of the host loop: game.update(), then the list that
\* getEvents() returns is handed to ui.handleEvents
appUpdate(g) == [game |-> update(g), handled |-> getEvents(update(g))]

\* Game.getState: the fields are copied; the rack and the well columns are
\* copied cell by cell (numbers); conveyorTiles is a new array that holds the
\* engine's own tile objects
getState(g) ==
    [score |-> g.score, level |-> g.level, lives |-> g.lives, paused |-> g.paused,
     gameOver |-> g.gameOver, conveyorTiles |-> g.conveyorTiles,
     catcherColumn |-> g.catcherColumn, rack |-> g.rack, well |-> g.well,
     frameCount |-> g.frameCount]

\* the tile object t of g.conveyorTiles as update() leaves it: updateConveyor
\* adds the speed to the object itself, before it decides whether to take it
\* off the list
tileObjectAfterUpdate(g, t) ==
    LET g2 == update(g)
        kept == {j \in DOMAIN g2.conveyorTiles : g2.conveyorTiles[j].id = t.id}
    IN  IF g.paused \/ g.gameOver THEN t
        ELSE IF kept # {} THEN g2.conveyorTiles[CHOOSE j \in kept : TRUE]
        ELSE [t EXCEPT !.position = @ + getTileSpeed(g)]

\* what the holder of getState(g) reads in it once the engine has run update():
\* the copied fields as they were, the tile objects as they are now
snapshotAfterUpdate(g) ==
    [getState(g) EXCEPT !.conveyorTiles =
        [i \in DOMAIN g.conveyorTiles |-> tileObjectAfterUpdate(g, g.conveyorTiles[i])]]

\* what the holder of getState(g) reads in it after a call that writes no tile
\* object: moveLeft, moveRight, dropFromRack, togglePause and reset (which
\* replaces the list and leaves the objects alone)
snapshotAfterOther(g) == getState(g)

---------------------------------------------------------------------------
(* Initial states.  A game is constructed and, to start the exploration    *)
(* in mid-game, is driven through one of four recorded call sequences:     *)
(* every initial state is the state the engine is in after new Game(seed)  *)
(* and the calls of the script, computed by the operators above.           *)

\* bounds of the exploration
MaxTicks == 3
MaxDrops == 3

\* new Game(seed): the constructor stores the seed and calls reset()
newGame(s) ==
    reset([score |-> 0, level |-> 0, lives |-> 0, paused |-> FALSE, gameOver |-> FALSE,
           conveyorTiles |-> <<>>, nextTileId |-> 0, spawnTimer |-> 0,
           catcherColumn |-> 0, rack |-> <<>>, well |-> EmptyWell, events |-> <<>>,
           frameCount |-> 0, seed |-> s])

call(g, op) ==
    CASE op = "update" -> update(g)
      [] op = "moveLeft" -> moveLeft(g).game
      [] op = "moveRight" -> moveRight(g).game
      [] op = "dropFromRack" -> dropFromRack(g).game
      [] op = "togglePause" -> togglePause(g)
      [] op = "reset" -> reset(g)

\* n calls of op in a row
RECURSIVE repeat(_, _, _)
repeat(g, op, n) ==
    IF n = 0 \/ g.gameOver THEN g ELSE repeat(call(g, op), op, n - 1)

\* the calls of a script, a sequence of <<op, number of calls>>, from entry i on
RECURSIVE replay(_, _, _)
replay(g, script, i) ==
    IF i > Len(script) \/ g.gameOver THEN g
    ELSE replay(repeat(g, script[i][1], script[i][2]), script, i + 1)

\* seed 445: every tile is caught and dropped at once; column 0 is filled, one
\* tile lies on column 1, three tiles are kept in the rack and the tenth tile
\* is one tick from the catch line, on column 0
ScriptFullColumn ==
    <<<<"update", 185>>, <<"moveRight", 1>>, <<"update", 1>>, <<"moveLeft", 3>>,
      <<"dropFromRack", 1>>, <<"update", 119>>, <<"moveRight", 2>>, <<"update", 1>>,
      <<"moveLeft", 2>>, <<"dropFromRack", 1>>, <<"update", 119>>, <<"moveRight", 1>>,
      <<"update", 1>>, <<"moveLeft", 1>>, <<"dropFromRack", 1>>, <<"update", 119>>,
      <<"moveRight", 2>>, <<"update", 1>>, <<"moveLeft", 1>>, <<"dropFromRack", 1>>,
      <<"update", 119>>, <<"moveRight", 1>>, <<"update", 1>>, <<"moveLeft", 2>>,
      <<"dropFromRack", 1>>, <<"update", 119>>, <<"moveRight", 2>>, <<"update", 1>>,
      <<"moveLeft", 2>>, <<"dropFromRack", 1>>, <<"update", 119>>, <<"moveRight", 2>>,
      <<"update", 120>>, <<"moveRight", 1>>, <<"update", 120>>, <<"moveLeft", 2>>,
      <<"update", 120>>>>

\* seed 2: the first five tiles are caught and kept; the sixth is one tick from
\* the catch line
ScriptFullRack ==
    <<<<"update", 185>>, <<"moveLeft", 1>>, <<"update", 120>>, <<"moveLeft", 1>>,
      <<"update", 240>>, <<"moveRight", 2>>, <<"update", 240>>>>

\* seed 445: every tile is caught and dropped on the column of its colour
\* index, so that vertical runs of 3 score 100 each, up to score 900; two tiles
\* lie on column 0 and a third of that colour is one tick from the catch line
ScriptNearLevelUp ==
    <<<<"update", 185>>, <<"moveRight", 1>>, <<"update", 1>>, <<"moveLeft", 1>>,
      <<"dropFromRack", 1>>, <<"update", 120>>, <<"moveLeft", 1>>,
      <<"dropFromRack", 1>>, <<"update", 120>>, <<"moveRight", 1>>,
      <<"dropFromRack", 1>>, <<"update", 120>>, <<"dropFromRack", 1>>,
      <<"update", 120>>, <<"moveLeft", 1>>, <<"dropFromRack", 1>>, <<"update", 119>>,
      <<"moveRight", 1>>, <<"update", 1>>, <<"dropFromRack", 1>>, <<"update", 120>>,
      <<"dropFromRack", 1>>, <<"update", 119>>, <<"moveRight", 1>>, <<"update", 1>>,
      <<"moveLeft", 3>>, <<"dropFromRack", 1>>, <<"update", 119>>, <<"moveRight", 1>>,
      <<"update", 1>>, <<"moveRight", 1>>, <<"dropFromRack", 1>>, <<"update", 119>>,
      <<"moveLeft", 2>>, <<"update", 1>>, <<"moveRight", 2>>, <<"dropFromRack", 1>>,
      <<"update", 119>>, <<"moveLeft", 2>>, <<"update", 1>>, <<"moveRight", 2>>,
      <<"dropFromRack", 1>>, <<"update", 119>>, <<"moveRight", 2>>, <<"update", 1>>,
      <<"moveLeft", 2>>, <<"dropFromRack", 1>>, <<"update", 120>>, <<"moveLeft", 1>>,
      <<"dropFromRack", 1>>, <<"update", 119>>, <<"moveLeft", 1>>, <<"update", 1>>,
      <<"moveRight", 2>>, <<"dropFromRack", 1>>, <<"update", 120>>, <<"moveLeft", 1>>,
      <<"dropFromRack", 1>>, <<"update", 119>>, <<"moveLeft", 1>>, <<"update", 1>>,
      <<"moveRight", 2>>, <<"dropFromRack", 1>>, <<"update", 119>>, <<"moveLeft", 2>>,
      <<"update", 1>>, <<"moveRight", 2>>, <<"dropFromRack", 1>>, <<"update", 120>>,
      <<"moveLeft", 2>>, <<"dropFromRack", 1>>, <<"update", 119>>, <<"moveRight", 2>>,
      <<"update", 1>>, <<"moveLeft", 1>>, <<"dropFromRack", 1>>, <<"update", 119>>,
      <<"moveRight", 1>>, <<"update", 1>>, <<"dropFromRack", 1>>, <<"update", 119>>,
      <<"moveLeft", 1>>, <<"update", 1>>, <<"moveRight", 1>>, <<"dropFromRack", 1>>,
      <<"update", 120>>, <<"moveLeft", 1>>, <<"dropFromRack", 1>>, <<"update", 119>>,
      <<"moveRight", 2>>, <<"update", 1>>, <<"moveLeft", 2>>, <<"dropFromRack", 1>>,
      <<"update", 120>>, <<"moveLeft", 1>>, <<"dropFromRack", 1>>, <<"update", 119>>,
      <<"moveRight", 3>>, <<"update", 1>>, <<"moveLeft", 2>>, <<"dropFromRack", 1>>,
      <<"update", 119>>, <<"moveRight", 2>>, <<"update", 1>>, <<"moveLeft", 2>>,
      <<"dropFromRack", 1>>, <<"update", 119>>, <<"moveRight", 2>>, <<"update", 1>>,
      <<"moveLeft", 3>>, <<"dropFromRack", 1>>, <<"update", 119>>, <<"moveRight", 3>>,
      <<"update", 1>>, <<"moveLeft", 3>>, <<"dropFromRack", 1>>, <<"update", 120>>,
      <<"moveRight", 2>>, <<"dropFromRack", 1>>, <<"update", 119>>, <<"moveRight", 1>>,
      <<"update", 1>>, <<"moveLeft", 2>>, <<"dropFromRack", 1>>, <<"update", 119>>>>

\* seed 132: eight tiles are caught and dropped so that a down-right diagonal
\* lacks its two end cells, and two tiles of its colour are kept in the rack
ScriptDiagonal ==
    <<<<"update", 185>>, <<"moveLeft", 2>>, <<"update", 1>>, <<"moveRight", 1>>,
      <<"dropFromRack", 1>>, <<"update", 119>>, <<"moveLeft", 1>>, <<"update", 1>>,
      <<"moveRight", 2>>, <<"dropFromRack", 1>>, <<"update", 120>>, <<"moveLeft", 2>>,
      <<"dropFromRack", 1>>, <<"update", 119>>, <<"moveRight", 3>>, <<"update", 1>>,
      <<"moveLeft", 1>>, <<"dropFromRack", 1>>, <<"update", 119>>, <<"moveLeft", 2>>,
      <<"update", 1>>, <<"moveRight", 1>>, <<"dropFromRack", 1>>, <<"update", 119>>,
      <<"moveRight", 2>>, <<"update", 1>>, <<"moveLeft", 2>>, <<"dropFromRack", 1>>,
      <<"update", 119>>, <<"moveRight", 3>>, <<"update", 1>>, <<"moveLeft", 4>>,
      <<"dropFromRack", 1>>, <<"update", 119>>, <<"moveRight", 1>>, <<"update", 1>>,
      <<"moveLeft", 1>>, <<"dropFromRack", 1>>, <<"update", 119>>, <<"moveRight", 1>>,
      <<"update", 120>>, <<"moveLeft", 1>>, <<"update", 1>>>>

OpeningFullColumn == replay(newGame(445), ScriptFullColumn, 1)
OpeningFullRack == replay(newGame(2), ScriptFullRack, 1)
OpeningNearLevelUp == replay(newGame(445), ScriptNearLevelUp, 1)
OpeningDiagonal == replay(newGame(132), ScriptDiagonal, 1)

Openings ==
    {newGame(445), OpeningFullColumn, OpeningFullRack, OpeningNearLevelUp,
     OpeningDiagonal}

Init ==
    /\ \E g \in Openings :
        /\ score = g.score
        /\ level = g.level
        /\ lives = g.lives
        /\ paused = g.paused
        /\ gameOver = g.gameOver
        /\ conveyorTiles = g.conveyorTiles
        /\ nextTileId = g.nextTileId
        /\ spawnTimer = g.spawnTimer
        /\ catcherColumn = g.catcherColumn
        /\ rack = g.rack
        /\ well = g.well
        /\ events = g.events
        /\ frameCount = g.frameCount
        /\ seed = g.seed
        /\ twin = g
    /\ pending = "none"
    /\ ticks = 0
    /\ drops = 0

---------------------------------------------------------------------------
(* Actions: one per public method *)

\* update() while playing; the model stops ticking after MaxTicks playing ticks
Update ==
    /\ paused \/ gameOver \/ ticks < MaxTicks
    /\ Commit(update(This))
    /\ ticks' = IF paused \/ gameOver THEN ticks ELSE ticks + 1
    /\ UNCHANGED <<drops, twin, pending>>

MoveLeft ==
    /\ Commit(moveLeft(This).game)
    /\ UNCHANGED <<ticks, drops, twin, pending>>

MoveRight ==
    /\ Commit(moveRight(This).game)
    /\ UNCHANGED <<ticks, drops, twin, pending>>

\* dropFromRack(); the model stops dropping after MaxDrops tiles
DropFromRack ==
    /\ ~dropFromRack(This).ret \/ drops < MaxDrops
    /\ Commit(dropFromRack(This).game)
    /\ drops' = IF dropFromRack(This).ret THEN drops + 1 ELSE drops
    /\ UNCHANGED <<ticks, twin, pending>>

TogglePause ==
    /\ Commit(togglePause(This))
    /\ UNCHANGED <<ticks, drops, twin, pending>>

Reset ==
    /\ Commit(reset(This))
    /\ UNCHANGED <<ticks, drops, twin, pending>>

Next ==
    \/ Update
    \/ MoveLeft
    \/ MoveRight
    \/ DropFromRack
    \/ TogglePause
    \/ Reset

Spec == Init /\ [][Next]_vars

---------------------------------------------------------------------------
(* checkRackMatches as a function of the rack: a new game is handed every    *)
(* rack of up to MaxRackLen tiles of three colours, runs and racks beyond the *)
(* capacity included, with a score of 0 or of 900, one match from level 2    *)

MaxRackLen == 6

RackColours == 0 .. 2

RackInputs == UNION {[1 .. n -> RackColours] : n \in 0 .. MaxRackLen}

\* the fields of game record g are the values of the variables
StartsAs(g) ==
    /\ score = g.score
    /\ level = g.level
    /\ lives = g.lives
    /\ paused = g.paused
    /\ gameOver = g.gameOver
    /\ conveyorTiles = g.conveyorTiles
    /\ nextTileId = g.nextTileId
    /\ spawnTimer = g.spawnTimer
    /\ catcherColumn = g.catcherColumn
    /\ rack = g.rack
    /\ well = g.well
    /\ events = g.events
    /\ frameCount = g.frameCount
    /\ seed = g.seed

InitRack ==
    /\ \E r \in RackInputs : \E s \in {0, LEVEL_UP_THRESHOLD - 100} :
         /\ StartsAs([newGame(445) EXCEPT !.rack = r, !.score = s])
         /\ twin = [newGame(445) EXCEPT !.rack = r, !.score = s]
    /\ pending = "none"
    /\ ticks = 0
    /\ drops = 0

CheckRackMatches ==
    /\ Commit(checkRackMatches(This))
    /\ UNCHANGED <<ticks, drops, twin, pending>>

NextRack == CheckRackMatches

SpecRack == InitRack /\ [][NextRack]_vars

---------------------------------------------------------------------------
(* Two Game objects constructed with the same seed and driven by the same    *)
(* calls: every call is made on the first object and then on the second.     *)
(* Both start one tick before the first tile is spawned and are run until    *)
(* that tile has reached the catch line.                                     *)

MaxTwinTicks == 67

TwinSeeds == {1, 445}

TwinOpenings == {repeat(newGame(s), "update", BASE_SPAWN_INTERVAL - 1) : s \in TwinSeeds}

Ops == {"update", "moveLeft", "moveRight", "dropFromRack", "togglePause", "reset"}

InitTwin ==
    /\ \E g \in TwinOpenings : StartsAs(g) /\ twin = g
    /\ pending = "none"
    /\ ticks = 0
    /\ drops = 0

\* the first object makes the call op
First(op) ==
    /\ pending = "none"
    /\ op = "update" => (paused \/ gameOver \/ ticks < MaxTwinTicks)
    /\ op = "dropFromRack" => (~dropFromRack(This).ret \/ drops < MaxDrops)
    /\ Commit(call(This, op))
    /\ ticks' = IF op = "update" /\ ~paused /\ ~gameOver THEN ticks + 1 ELSE ticks
    /\ drops' = IF op = "dropFromRack" /\ dropFromRack(This).ret THEN drops + 1 ELSE drops
    /\ pending' = op
    /\ UNCHANGED twin

\* the second object makes the same call
Second ==
    /\ pending # "none"
    /\ twin' = call(twin, pending)
    /\ pending' = "none"
    /\ UNCHANGED <<gameVars, ticks, drops>>

NextTwin ==
    \/ \E op \in Ops : First(op)
    \/ Second

SpecTwin == InitTwin /\ [][NextTwin]_vars

---------------------------------------------------------------------------
(* The public methods from three further openings: a well in which clearing *)
(* one run lets a tile fall into another, a game whose next match raises the *)
(* level four ticks before the spawn timer runs out, and a game one tick     *)
(* before its first spawn                                                    *)

\* seed 7: tiles of colour 0 lie at the bottom of columns 0 and 2, two tiles of
\* colour 1 on column 1; a tile of colour 1 and one of colour 0 are kept in the
\* rack, the catcher stands over column 1
ScriptGravity ==
    <<<<"update", 186>>, <<"moveLeft", 1>>, <<"dropFromRack", 1>>, <<"update", 120>>,
      <<"moveLeft", 1>>, <<"dropFromRack", 1>>, <<"update", 119>>, <<"moveRight", 2>>,
      <<"update", 1>>, <<"moveLeft", 1>>, <<"dropFromRack", 1>>, <<"update", 119>>,
      <<"moveRight", 3>>, <<"update", 1>>, <<"moveLeft", 2>>, <<"dropFromRack", 1>>,
      <<"update", 239>>, <<"moveRight", 1>>, <<"update", 1>>, <<"moveLeft", 2>>>>

\* the near-level-up opening, its tile caught and carried to column 0, then 49
\* ticks of waiting: spawn timer 115, score 900
ScriptLateLevelUp ==
    ScriptNearLevelUp \o <<<<"update", 1>>, <<"moveLeft", 1>>, <<"update", 49>>>>

OpeningGravity == replay(newGame(7), ScriptGravity, 1)
OpeningLateLevelUp == replay(newGame(445), ScriptLateLevelUp, 1)
OpeningFirstSpawn == repeat(newGame(7), "update", BASE_SPAWN_INTERVAL - 1)

\* the levels the difficulty functions are evaluated at
MaxLevel == 20

MidGameOpenings == {OpeningGravity, OpeningLateLevelUp, OpeningFirstSpawn}

InitMidGame ==
    /\ \E g \in MidGameOpenings : StartsAs(g) /\ twin = g
    /\ pending = "none"
    /\ ticks = 0
    /\ drops = 0

SpecMidGame == InitMidGame /\ [][Next]_vars

---------------------------------------------------------------------------
(* update() as a function of the conveyor: a new game is handed every       *)
(* conveyor of up to MaxConveyorTiles tiles that spawning can have spaced    *)
(* (see spaced), at the first level, one match below the second, and at the  *)
(* level of the highest speed, with the spawn timer at 0 or one tick before  *)
(* the spawn, and an empty rack or one that the next catch completes         *)

MaxConveyorTiles == 2

\* positions in hundredths: one tick from the spawn, mid-way twice, and within
\* one tick of the catch line at the lowest and the highest speed
ConveyorPositions == {15, 480, 495, 960, 985, 990}

\* the least distance two tiles are spawned apart: the shortest interval at
\* the lowest speed
MinTileGap == MIN_SPAWN_INTERVAL * BASE_TILE_SPEED

\* the conveyor as spawning and the common speed keep it: ids ascending and
\* below nextTileId, every tile behind the catch line and at least MinTileGap
\* behind the tile spawned before it, the last one as far as the ticks since
\* its spawn have taken it
spaced(g) ==
    LET tiles == g.conveyorTiles
    IN  /\ \A i \in DOMAIN tiles :
              /\ tiles[i].id < g.nextTileId
              /\ tiles[i].position < CONVEYOR_LENGTH
        /\ \A i \in 1 .. Len(tiles) - 1 :
              /\ tiles[i].id < tiles[i + 1].id
              /\ tiles[i].position >= tiles[i + 1].position + MinTileGap
        /\ tiles # <<>> =>
              tiles[Len(tiles)].position >= BASE_TILE_SPEED * (g.spawnTimer + 1)

ConveyorInputs ==
    UNION {{[i \in 1 .. n |-> [id |-> i - 1, position |-> tiles[i].position,
                               colorIndex |-> tiles[i].colorIndex,
                               column |-> tiles[i].column]] :
               tiles \in {t \in [1 .. n -> [position : ConveyorPositions,
                                            colorIndex : 0 .. 1, column : 1 .. 2]] :
                             \A i \in 1 .. n - 1 :
                                 t[i].position >= t[i + 1].position + MinTileGap}} :
           n \in 0 .. MaxConveyorTiles}

ConveyorGames ==
    {g \in {[newGame(445) EXCEPT !.conveyorTiles = tiles, !.nextTileId = Len(tiles),
                                 !.level = lv, !.score = s, !.spawnTimer = timer,
                                 !.rack = r] :
               tiles \in ConveyorInputs,
               lv \in {1, 14},
               s \in {0, LEVEL_UP_THRESHOLD - 100},
               timer \in {0, MIN_SPAWN_INTERVAL - 1, BASE_SPAWN_INTERVAL - 1},
               r \in {<<>>, <<0, 0>>}} :
        /\ spaced(g)
        /\ g.spawnTimer < getSpawnInterval(g)
        /\ g.score = LEVEL_UP_THRESHOLD - 100 => g.level = 1}

InitConveyor ==
    /\ \E g \in ConveyorGames : StartsAs(g) /\ twin = g
    /\ pending = "none"
    /\ ticks = 0
    /\ drops = 0

NextConveyor == Update

SpecConveyor == InitConveyor /\ [][NextConveyor]_vars

---------------------------------------------------------------------------
(* spawnTile as a function of the seed: a new game of every seed the         *)
(* generator can hold (every value below its modulus; next() maps any larger  *)
(* constructor seed into that range with its first call), the even seeds at  *)
(* a level with 3 colours and the odd ones at a level with all 6, spawns up   *)
(* to MaxSpawns tiles                                                         *)

MaxSpawns == 1

SeedInputs == 0 .. RNG_M - 1

InitRng ==
    /\ \E s \in SeedInputs :
         /\ StartsAs([newGame(s) EXCEPT !.level = IF s % 2 = 0 THEN 1 ELSE 9])
         /\ twin = s
    /\ pending = "none"
    /\ ticks = 0
    /\ drops = 0

SpawnTile ==
    /\ nextTileId < MaxSpawns
    /\ Commit(spawnTile(This))
    /\ UNCHANGED <<ticks, drops, twin, pending>>

NextRng == SpawnTile

SpecRng == InitRng /\ [][NextRng]_vars

---------------------------------------------------------------------------
(* applyGravity and checkMatches as functions of the well: a new game is    *)
(* handed every well of up to MaxWellTiles tiles of two colours, placed      *)
(* anywhere (gaps included), and every well made of full and empty rows, at  *)
(* a score of 0 or of 900                                                    *)

MaxWellTiles == 2

WellColours == 0 .. 1

\* the wells that hold at most n tiles
RECURSIVE wellsWith(_)
wellsWith(n) ==
    IF n = 0 THEN {EmptyWell}
    ELSE LET smaller == wellsWith(n - 1)
         IN  smaller \cup {[w EXCEPT ![col][row] = colour] :
                               w \in smaller, col \in Cols, row \in Rows,
                               colour \in WellColours}

\* the wells whose rows are each empty or full of one colour
RowWells ==
    {[col \in Cols |-> [row \in Rows |-> rows[row]]] :
        rows \in [Rows -> {Null} \cup WellColours]}

WellInputs == wellsWith(MaxWellTiles) \cup RowWells

InitWell ==
    /\ \E w \in WellInputs : \E s \in {0, LEVEL_UP_THRESHOLD - 100} :
         /\ StartsAs([newGame(445) EXCEPT !.well = w, !.score = s])
         /\ twin = [newGame(445) EXCEPT !.well = w, !.score = s]
    /\ pending = "none"
    /\ ticks = 0
    /\ drops = 0

ApplyGravity ==
    /\ Commit([This EXCEPT !.well = applyGravity(@)])
    /\ UNCHANGED <<ticks, drops, twin, pending>>

CheckMatches ==
    /\ Commit(checkMatches(This))
    /\ UNCHANGED <<ticks, drops, twin, pending>>

NextWell ==
    \/ ApplyGravity
    \/ CheckMatches

SpecWell == InitWell /\ [][NextWell]_vars

---------------------------------------------------------------------------
(* Properties *)

playing == ~paused /\ ~gameOver

\* C1: in every reachable state lives is an integer with 0 <= lives <= 3; no
\* tick and no call after game over drives it below 0
C1_LivesInRange == lives \in 0 .. INITIAL_LIVES

\* the last life has been lost
C1_Witness == lives = 0 /\ gameOver

\* no empty cell lies below a filled cell of the same column
gapFree(w) ==
    \A col \in Cols : \A row \in 0 .. WELL_ROWS - 2 :
        w[col][row] # Null => w[col][row + 1] # Null

\* C2: after every update() and every dropFromRack() each well column is
\* gap-free: its filled cells are a contiguous block ending at the bottom row
C2_GapFree == gapFree(well)

\* the last tick cleared a horizontal run and a cell it cleared is filled again:
\* the tiles above it have come down
C2_Witness ==
    /\ \A i \in DOMAIN events : events[i].type # "drop"
    /\ \E i \in DOMAIN events :
        /\ events[i].type = "match"
        /\ \E m \in DOMAIN events[i].matches :
            /\ events[i].matches[m].type = "horizontal"
            /\ \E t \in DOMAIN events[i].matches[m].tiles :
                well[events[i].matches[m].tiles[t][1]][events[i].matches[m].tiles[t][2]] # Null

\* C3: after every public operation level = floor(score / 1000) + 1
C3_LevelOfScore == level = (score \div LEVEL_UP_THRESHOLD) + 1

\* a scoring event has taken the score over the first threshold
C3_Witness == score >= LEVEL_UP_THRESHOLD /\ level = 2

\* the four line directions <<dc, dr>>: horizontal, vertical, down-right and
\* down-left
Dirs == {<<1, 0>>, <<0, 1>>, <<1, 1>>, <<-1, 1>>}

inGrid(col, row) == col \in Cols /\ row \in Rows

\* the cells of the line segment of n cells from (col, row) in direction d
segment(col, row, d, n) ==
    {<<col + d[1] * i, row + d[2] * i>> : i \in 0 .. n - 1}

\* the n cells from (col, row) in direction d are a maximal run of one colour
isMaximalRun(w, col, row, d, n) ==
    /\ w[col][row] # Null
    /\ \A cell \in segment(col, row, d, n) :
        inGrid(cell[1], cell[2]) /\ w[cell[1]][cell[2]] = w[col][row]
    /\ ~(inGrid(col - d[1], row - d[2]) /\ w[col - d[1]][row - d[2]] = w[col][row])
    /\ ~(inGrid(col + d[1] * n, row + d[2] * n)
            /\ w[col + d[1] * n][row + d[2] * n] = w[col][row])

\* the maximal runs of 3 or more cells of a well, as <<col, row, d, n>>
maximalRuns(w) ==
    {run \in Cols \X Rows \X Dirs \X (3 .. WELL_ROWS) :
        isMaximalRun(w, run[1], run[2], run[3], run[4])}

\* the non-empty colours of a column without the given cells, top first
RECURSIVE coloursLeft(_, _, _, _)
coloursLeft(w, cells, col, row) ==
    IF row >= WELL_ROWS THEN <<>>
    ELSE IF w[col][row] # Null /\ <<col, row>> \notin cells
         THEN <<w[col][row]>> \o coloursLeft(w, cells, col, row + 1)
         ELSE coloursLeft(w, cells, col, row + 1)

\* no tile reaches the catch line in the next tick
noTileLands ==
    \A i \in DOMAIN conveyorTiles :
        conveyorTiles[i].position + getTileSpeed(This) < CONVEYOR_LENGTH

\* C4: when the only run of the well is a maximal run of n equal colours in one
\* of the four directions, one update() adds exactly 100 (n = 3), 300 (n = 4) or
\* 600 (n = 5) points and empties exactly those n cells (stated for the ticks
\* in which no tile reaches the catch line, where nothing else scores or
\* writes the well)
C4_RunScoresOnce ==
    [][LET runs == maximalRuns(well)
       IN  (/\ playing
            /\ noTileLands
            /\ Cardinality(runs) = 1
            /\ Update)
           => LET run == CHOOSE r \in runs : TRUE
              IN  /\ score' - score = (CASE run[4] = 3 -> 100 [] run[4] = 4 -> 300
                                         [] run[4] = 5 -> 600)
                  /\ \A col \in Cols :
                       coloursLeft(well', {}, col, 0)
                         = coloursLeft(well, segment(run[1], run[2], run[3], run[4]),
                                       col, 0)
      ]_vars

\* C5: the score and level carried by the GAME_OVER event are the final ones:
\* from the end of the operation that emitted it until the next reset() they
\* equal the engine's score and level (the event stays in the list for that
\* long, as update() returns before clearing it once the game is over)
C5_GameOverEventFinal ==
    \A i \in DOMAIN events :
        events[i].type = "gameOver"
            => events[i].score = score /\ events[i].level = level

\* C6: between two consecutive update() calls the list returned by getEvents()
\* does not change, whichever of moveLeft, moveRight, dropFromRack and
\* togglePause are called in between (getEvents and getState write nothing)
C6_EventsStableBetweenTicks ==
    [][(MoveLeft \/ MoveRight \/ DropFromRack \/ TogglePause)
          => getEvents(This)' = getEvents(This)]_vars

\* C7: after every call of update(), playing, paused or game over, getEvents()
\* returns exactly the events generated during that call, and no event of an
\* earlier call: a call that returns at once generates none, and what a playing
\* call generates does not depend on the list it found
C7_EventsOfLastUpdate ==
    getEvents(update(This)) =
        IF paused \/ gameOver THEN <<>>
        ELSE update([This EXCEPT !.events = <<>>]).events

\* C8: once gameOver is true, update(), moveLeft(), moveRight(),
\* dropFromRack() and togglePause() leave every field of the engine unchanged
\* and the three player actions return false; gameOver becomes false again
\* only through reset()
C8_GameOverFrozen ==
    /\ [](gameOver =>
            /\ update(This) = This
            /\ moveLeft(This) = [game |-> This, ret |-> FALSE]
            /\ moveRight(This) = [game |-> This, ret |-> FALSE]
            /\ dropFromRack(This) = [game |-> This, ret |-> FALSE]
            /\ togglePause(This) = This)
    /\ [][gameOver /\ ~gameOver' => Reset]_vars

\* the game is over with a tile left in the rack, the catcher off the walls
\* and playing ticks left to run: but for gameOver each of the five calls
\* would change the state
C8_Witness ==
    /\ gameOver
    /\ Len(rack) > 0
    /\ catcherColumn \in 1 .. WELL_COLS - 2
    /\ ticks < MaxTicks

\* the tiles that reach the catch line in the next playing tick
landing == {i \in DOMAIN conveyorTiles :
              conveyorTiles[i].position + getTileSpeed(This) >= CONVEYOR_LENGTH}

columnFull(w, col) == \A row \in Rows : w[col][row] # Null

\* the LIFE_LOST events of an event list
lifeLostIn(evs) == {j \in DOMAIN evs : evs[j].type = "lifeLost"}

\* C9: when a tile reaches the catch line in the catcher's column while the
\* rack holds 5 entries, the rack is left unchanged, the well is not written,
\* lives decrease by exactly 1 and exactly one LIFE_LOST event, with the
\* rack-overflow reason, is emitted; rack length <= 5 in every reachable state
C9_RackOverflow ==
    /\ Len(rack) <= RACK_CAPACITY
    /\ \A i \in landing :
        (/\ playing
         /\ conveyorTiles[i].column = catcherColumn
         /\ Len(rack) = RACK_CAPACITY)
        => /\ afterConveyor(This).rack = rack
           /\ afterConveyor(This).well = well
           /\ afterConveyor(This).lives = lives - 1
           /\ update(This).rack = rack
           /\ update(This).lives = lives - 1
           /\ Cardinality(lifeLostIn(update(This).events)) = 1
           /\ \A j \in lifeLostIn(update(This).events) :
                /\ update(This).events[j].reason = "Rack overflow"
                /\ update(This).events[j].lives = lives - 1

\* a tick has just lost a life to the full rack
C9_Witness ==
    /\ Len(rack) = RACK_CAPACITY
    /\ \E j \in lifeLostIn(events) : events[j].reason = "Rack overflow"

\* C10: when a tile falling off the conveyor into its own column, or a tile
\* dropped by dropFromRack() into the catcher's column, targets a column whose
\* 5 cells are filled, the drop leaves all 5 cells as they are, lives decrease
\* by exactly 1 and a LIFE_LOST event with the well-column-full reason is
\* emitted; the call goes on (TILE_FALL or DROP is still pushed, the tick is
\* counted and returns true for the drop)
C10_WellOverflow ==
    /\ \A i \in landing :
        (/\ playing
         /\ conveyorTiles[i].column # catcherColumn
         /\ columnFull(well, conveyorTiles[i].column))
        => /\ afterConveyor(This).well = well
           /\ update(This).lives = lives - 1
           /\ Cardinality(lifeLostIn(update(This).events)) = 1
           /\ \A j \in lifeLostIn(update(This).events) :
                /\ update(This).events[j].reason = "Well column full"
                /\ update(This).events[j].lives = lives - 1
                /\ \E k \in j + 1 .. Len(update(This).events) :
                     update(This).events[k].type = "tileFall"
           /\ update(This).frameCount = frameCount + 1
    /\ (playing /\ Len(rack) > 0 /\ columnFull(well, catcherColumn))
        => /\ dropFromRack(This).ret
           /\ dropFromRack(This).game.well = well
           /\ dropFromRack(This).game.lives = lives - 1
           /\ Len(dropFromRack(This).game.events) >= Len(events) + 2
           /\ dropFromRack(This).game.events[Len(events) + 1]
                = [type |-> "lifeLost", lives |-> lives - 1, reason |-> "Well column full"]
           /\ dropFromRack(This).game.events[Len(dropFromRack(This).game.events)].type
                = "drop"

\* a tile has just fallen on a full column after a drop on a full column
C10_Witness ==
    /\ lives <= INITIAL_LIVES - 2
    /\ \E j \in lifeLostIn(events) :
        /\ events[j].reason = "Well column full"
        /\ \E k \in j + 1 .. Len(events) : events[k].type = "tileFall"

\* the GAME_OVER events of an event list
gameOverIn(evs) == {j \in DOMAIN evs : evs[j].type = "gameOver"}

\* the lives reported by the LIFE_LOST events of evs from index j on count
\* down one by one from n
RECURSIVE livesCountDown(_, _, _)
livesCountDown(evs, j, n) ==
    IF j > Len(evs) THEN TRUE
    ELSE IF evs[j].type = "lifeLost"
         THEN evs[j].lives = n - 1 /\ livesCountDown(evs, j + 1, n - 1)
         ELSE livesCountDown(evs, j + 1, n)

\* C11: gameOver is true if and only if lives = 0; every overflow failure of
\* an update() or a dropFromRack() takes exactly one life (lives fall by the
\* number of LIFE_LOST events the call emits, each reporting one life less
\* than the one before); the event list holds one GAME_OVER event when the
\* game is over and none otherwise, and a GAME_OVER event directly follows the
\* LIFE_LOST event that reports 0 lives, which is followed by nothing else
C11_GameOverIffNoLives ==
    /\ gameOver <=> lives = 0
    /\ Cardinality(gameOverIn(events)) = IF gameOver THEN 1 ELSE 0
    /\ \A j \in gameOverIn(events) :
         j > 1 /\ events[j - 1].type = "lifeLost" /\ events[j - 1].lives = 0
    /\ \A j \in lifeLostIn(events) :
         events[j].lives = 0 <=> (j + 1) \in gameOverIn(events)
    /\ LET u == update(This)
           d == dropFromRack(This).game
       IN  /\ playing =>
                /\ u.lives = lives - Cardinality(lifeLostIn(u.events))
                /\ livesCountDown(u.events, 1, lives)
                /\ u.gameOver <=> u.lives = 0
                /\ Cardinality(gameOverIn(u.events)) = IF u.lives = 0 THEN 1 ELSE 0
           /\ d.lives = lives - (Cardinality(lifeLostIn(d.events))
                                   - Cardinality(lifeLostIn(events)))
           /\ livesCountDown(d.events, Len(events) + 1, lives)
           /\ d.gameOver <=> d.lives = 0

\* the third life has just been lost: the list ends with the LIFE_LOST event
\* that reports 0 lives, the GAME_OVER event and what the call pushed after them
C11_Witness ==
    /\ gameOver
    /\ \E j \in gameOverIn(events) : events[j - 1].lives = 0
    /\ Cardinality(lifeLostIn(events)) = 1

\* C12: a snapshot returned by getState() is isolated from the engine: after
\* a later update(), dropFromRack(), reset() or other call its holder reads in
\* it the values it held when it was returned, the positions of the tiles of
\* its conveyorTiles list, the rack and the well cells included
C12_SnapshotIsolated ==
    /\ snapshotAfterUpdate(This) = getState(This)
    /\ snapshotAfterOther(This) = getState(This)

\* the empty rows of a well column
emptyRows(w, col) == {row \in Rows : w[col][row] = Null}

\* the DROP events of an event list
dropIn(evs) == {j \in DOMAIN evs : evs[j].type = "drop"}

\* C13: dropFromRack() returns true exactly when the engine is neither paused
\* nor game over and the rack is non-empty; it then removes the entry at rack
\* index 0, the other entries keeping their order, writes that colour into
\* the empty cell of highest row index of the catcher's column if there is
\* one (and writes no other cell), and pushes exactly one DROP event, last,
\* with that column and colour; otherwise it returns false and changes nothing
C13_DropFromRack ==
    LET d == dropFromRack(This)
        empties == emptyRows(well, catcherColumn)
    IN  /\ d.ret <=> (playing /\ Len(rack) > 0)
        /\ ~d.ret => d.game = This
        /\ d.ret =>
             /\ Len(d.game.rack) = Len(rack) - 1
             /\ \A i \in DOMAIN d.game.rack : d.game.rack[i] = rack[i + 1]
             /\ d.game.well =
                    IF empties = {} THEN well
                    ELSE [well EXCEPT ![catcherColumn][CHOOSE row \in empties :
                                          \A other \in empties : other <= row] = rack[1]]
             /\ Cardinality(dropIn(d.game.events)) = Cardinality(dropIn(events)) + 1
             /\ d.game.events[Len(d.game.events)]
                    = [type |-> "drop", column |-> catcherColumn, colorIndex |-> rack[1]]
             /\ SubSeq(d.game.events, 1, Len(events)) = events
             /\ empties # {} => d.game = [This EXCEPT !.rack = d.game.rack,
                                                      !.well = d.game.well,
                                                      !.events = d.game.events]

\* a tile has just been dropped on a column that held tiles already, out of a
\* rack of two colours that keeps a tile
C13_Witness ==
    /\ drops > 0
    /\ Len(events) > 0
    /\ events[Len(events)].type = "drop"
    /\ Len(rack) > 0
    /\ rack[1] # events[Len(events)].colorIndex
    /\ Cardinality(emptyRows(well, catcherColumn)) \in 1 .. WELL_ROWS - 2

\* C14: the catcher column is 2 after construction and after reset() and is in
\* 0 .. 4 in every reachable state; moveLeft() / moveRight() change it by
\* exactly -1 / +1 and return true when the engine is playing and the catcher
\* is not at bound 0 / 4, and otherwise return false and leave it as it is;
\* neither call changes any other field
C14_CatcherMoves ==
    /\ catcherColumn \in Cols
    /\ newGame(seed).catcherColumn = 2
    /\ reset(This).catcherColumn = 2
    /\ moveLeft(This) =
          IF playing /\ catcherColumn # 0
          THEN [game |-> [This EXCEPT !.catcherColumn = catcherColumn - 1], ret |-> TRUE]
          ELSE [game |-> This, ret |-> FALSE]
    /\ moveRight(This) =
          IF playing /\ catcherColumn # WELL_COLS - 1
          THEN [game |-> [This EXCEPT !.catcherColumn = catcherColumn + 1], ret |-> TRUE]
          ELSE [game |-> This, ret |-> FALSE]

\* a new game whose catcher has been moved from column 2 to the right wall,
\* where the next moveRight() returns false
C14_Witness ==
    /\ playing
    /\ frameCount = 0
    /\ catcherColumn = WELL_COLS - 1

\* a rack without a run of 3 or more equal colours
noRackRun(r) ==
    \A i \in 1 .. Len(r) - 2 : ~(r[i] = r[i + 1] /\ r[i + 1] = r[i + 2])

\* rack r, after the removal of runs[k], runs[k + 1], ... in that order, each
\* a run of 3 or more equal colours that no neighbour of its colour extends,
\* is the rack final
RECURSIVE removesRuns(_, _, _, _)
removesRuns(r, runs, k, final) ==
    IF k > Len(runs) THEN r = final
    ELSE LET n == Len(runs[k])
         IN  /\ n >= 3
             /\ \A i \in 1 .. n : runs[k][i] = runs[k][1]
             /\ \E start \in 0 .. Len(r) - n :
                  /\ SubSeq(r, start + 1, start + n) = runs[k]
                  /\ start > 0 => r[start] # runs[k][1]
                  /\ start + n < Len(r) => r[start + n + 1] # runs[k][1]
                  /\ removesRuns(SubSeq(r, 1, start) \o SubSeq(r, start + n + 1, Len(r)),
                                 runs, k + 1, final)

RECURSIVE sumOf(_, _)
sumOf(numbers, k) == IF k > Len(numbers) THEN 0 ELSE numbers[k] + sumOf(numbers, k + 1)

\* C15: for every rack content, racks longer than the capacity included, one
\* call of checkRackMatches removes one run of 3 or more equal colours after
\* the other, runs that form when the rest closes up included, until the rack
\* holds no run of 3 or more; it pushes one MATCH event per removed run, which
\* holds that run as its one match, of type rack, and 100 / 300 / 600 points
\* for a run of 3 / 4 / 5 or more, and adds those points to the score; apart
\* from the level it writes nothing else
C15_RackCascade ==
    LET g2 == checkRackMatches(This)
        pushed == SubSeq(g2.events, Len(events) + 1, Len(g2.events))
        matched == SelectSeq(pushed, LAMBDA e : e.type = "match")
        runs == [k \in DOMAIN matched |-> matched[k].matches[1].tiles]
        points == [k \in DOMAIN matched |-> matched[k].points]
    IN  /\ SubSeq(g2.events, 1, Len(events)) = events
        /\ noRackRun(g2.rack)
        /\ removesRuns(rack, runs, 1, g2.rack)
        /\ \A k \in DOMAIN matched :
             /\ Len(matched[k].matches) = 1
             /\ matched[k].matches[1].type = "rack"
             /\ matched[k].matches[1].colorIndex = runs[k][1]
             /\ points[k] = (CASE Len(runs[k]) = 3 -> 100 [] Len(runs[k]) = 4 -> 300
                                [] Len(runs[k]) >= 5 -> 600)
        /\ g2.score = score + sumOf(points, 1)
        /\ \A k \in DOMAIN pushed : pushed[k].type \in {"match", "levelUp"}
        /\ g2 = [This EXCEPT !.rack = g2.rack, !.score = g2.score,
                             !.level = g2.level, !.events = g2.events]

\* one call has emptied a rack of six tiles: a run of colour 0, then a run of
\* colour 1, took the score from 900 over the threshold
C15_Witness ==
    /\ rack = <<>>
    /\ score = LEVEL_UP_THRESHOLD + 100
    /\ level = 2
    /\ Len(events) = 3
    /\ events[1].type = "match" /\ events[1].matches[1].tiles = <<0, 0, 0>>
    /\ events[2].type = "levelUp"
    /\ events[3].type = "match" /\ events[3].matches[1].tiles = <<1, 1, 1>>

\* C16: while paused is true update() changes nothing (score, level, lives,
\* well, rack, conveyor tiles and their positions, spawn timer, tick counter
\* and every other field keep their values); togglePause() in a state that is
\* not game over flips paused and nothing else, so that two calls return the
\* engine to exactly the state it had before
C16_PauseFreezes ==
    /\ paused => update(This) = This
    /\ ~gameOver =>
         /\ togglePause(This) = [This EXCEPT !.paused = ~paused]
         /\ togglePause(togglePause(This)) = This

\* the game is paused with a tile one tick from the catch line and the spawn
\* timer running: a playing update() would change the state
C16_Witness ==
    /\ paused
    /\ ~gameOver
    /\ landing # {}
    /\ spawnTimer > 0
    /\ ticks < MaxTicks

\* C17: reset(), called in any reachable state (playing, paused or game over),
\* yields score 0, level 1, lives 3, paused false, gameOver false, a well of
\* 5 x 5 empty cells, an empty rack, an empty conveyor, spawn timer 0, tile-id
\* counter 0, catcher column 2, tick counter 0 and an empty event list, and
\* leaves the seed of the RNG as it is
C17_ResetState ==
    reset(This) =
        [score |-> 0, level |-> 1, lives |-> 3, paused |-> FALSE, gameOver |-> FALSE,
         conveyorTiles |-> <<>>, nextTileId |-> 0, spawnTimer |-> 0,
         catcherColumn |-> 2, rack |-> <<>>,
         well |-> [col \in 0 .. 4 |-> [row \in 0 .. 4 |-> Null]],
         events |-> <<>>, frameCount |-> 0, seed |-> seed]

\* a game has been reset in mid-game: every field has its first value and the
\* RNG has gone on from the seed the game was constructed with
C17_Witness ==
    /\ This = [reset(This) EXCEPT !.seed = seed]
    /\ frameCount = 0 /\ score = 0 /\ lives = INITIAL_LIVES /\ spawnTimer = 0
    /\ conveyorTiles = <<>> /\ rack = <<>> /\ well = EmptyWell /\ events = <<>>
    /\ seed \notin {445, 2, 132}

kindOf(d) ==
    CASE d = <<1, 0>> -> "horizontal"
      [] d = <<0, 1>> -> "vertical"
      [] d = <<1, 1>> -> "diagonal-dr"
      [] d = <<-1, 1>> -> "diagonal-dl"

\* C19: for every well content findMatches returns exactly the maximal runs
\* of 3 or more cells of one non-empty colour along the four line directions,
\* each once, with all its cells and its colour; no proper sub-run of a run is
\* returned as a further match, in the diagonal directions either
C19_MaximalRunsOnce ==
    LET matches == findMatches(well)
        runs == maximalRuns(well)
    IN  /\ Len(matches) = Cardinality(runs)
        /\ {<<matches[m].type, {matches[m].tiles[i] : i \in DOMAIN matches[m].tiles},
              matches[m].colorIndex>> : m \in DOMAIN matches}
             = {<<kindOf(run[3]), segment(run[1], run[2], run[3], run[4]),
                  well[run[1]][run[2]]>> : run \in runs}

\* the events of the given type in an event list
eventsOfType(evs, type) == {j \in DOMAIN evs : evs[j].type = type}

\* C20: a tile that reaches the catch line in a playing tick leaves the
\* conveyor and has exactly one of three outcomes.  In the catcher's column
\* with room in the rack: its colour is appended at the back of the rack (from
\* which the rack check may then remove runs), one CATCH event, the well is not
\* written and no life is lost.  In the catcher's column with a full rack: one
\* life is lost, rack and well stay as they are.  In another column: its
\* colour fills the empty cell of highest row index of the tile's own column
\* and the rack stays as it is, or, that column being full, one life is lost
\* and the well stays as it is; one TILE_FALL event either way
C20_TileOutcome ==
    \A i \in landing :
        playing =>
            LET tile == conveyorTiles[i]
                u == afterConveyor(This)
                catches == eventsOfType(u.events, "catch")
                falls == eventsOfType(u.events, "tileFall")
                losses == eventsOfType(u.events, "lifeLost")
                runs == LET matched == SelectSeq(u.events, LAMBDA e : e.type = "match")
                        IN  [k \in DOMAIN matched |-> matched[k].matches[1].tiles]
                empties == emptyRows(well, tile.column)
            IN  /\ \A j \in DOMAIN u.conveyorTiles : u.conveyorTiles[j].id # tile.id
                /\ IF tile.column = catcherColumn /\ Len(rack) < RACK_CAPACITY
                   THEN /\ removesRuns(Append(rack, tile.colorIndex), runs, 1, u.rack)
                        /\ Cardinality(catches) = 1
                        /\ \A j \in catches : u.events[j].colorIndex = tile.colorIndex
                        /\ falls = {} /\ losses = {}
                        /\ u.well = well /\ u.lives = lives
                   ELSE IF tile.column = catcherColumn
                   THEN /\ u.lives = lives - 1 /\ Cardinality(losses) = 1
                        /\ catches = {} /\ falls = {}
                        /\ u.rack = rack /\ u.well = well
                   ELSE IF empties # {}
                   THEN /\ u.well = [well EXCEPT ![tile.column][CHOOSE row \in empties :
                                         \A other \in empties : other <= row] = tile.colorIndex]
                        /\ Cardinality(falls) = 1
                        /\ catches = {} /\ losses = {}
                        /\ u.rack = rack /\ u.lives = lives
                   ELSE /\ u.lives = lives - 1 /\ Cardinality(losses) = 1
                        /\ Cardinality(falls) = 1 /\ catches = {}
                        /\ u.rack = rack /\ u.well = well

\* a tile has just fallen past the catcher into its own column, which held
\* tiles already, and no life was lost
C20_Witness ==
    /\ eventsOfType(events, "lifeLost") = {}
    /\ eventsOfType(events, "match") = {}
    /\ \E j \in eventsOfType(events, "tileFall") :
         /\ events[j].column # catcherColumn
         /\ Len(events) = j
         /\ Cardinality(emptyRows(well, events[j].column)) \in 1 .. WELL_ROWS - 2
         /\ well[events[j].column][CHOOSE row \in Rows :
                /\ well[events[j].column][row] # Null
                /\ \A other \in Rows : well[events[j].column][other] # Null => row <= other]
              = events[j].colorIndex

\* C21: applyGravity, on any well content, with gaps or without, leaves each
\* column with the non-empty colours it held, in the same order from top to
\* bottom, on the rows of highest index with every empty cell above them; no
\* colour changes its column; a second application changes nothing
C21_GravityCompacts ==
    LET fallen == applyGravity(well)
    IN  /\ \A col \in Cols :
             coloursLeft(fallen, {}, col, 0) = coloursLeft(well, {}, col, 0)
        /\ gapFree(fallen)
        /\ applyGravity(fallen) = fallen

\* a column holds two tiles of different colours with a gap below each: both
\* have to come down and keep their order
C21_Witness ==
    \E col \in Cols :
        /\ well[col][0] = 0 /\ well[col][1] = Null
        /\ well[col][2] = 1 /\ well[col][3] = Null
        /\ applyGravity(well)[col][3] = 0 /\ applyGravity(well)[col][4] = 1

\* the events a step from game g to game g2 has pushed
pushedBy(g, g2) == SubSeq(g2.events, Len(g.events) + 1, Len(g2.events))

\* C23: level never decreases, and a LEVEL_UP event is emitted exactly when a
\* scoring event raises floor(score / 1000) + 1 above the stored level: one
\* event per scoring event, carrying the new level, also when the score jumps
\* over several thresholds at once, and none when the level is unchanged
C23_LevelUp ==
    LET scored == checkMatches(This)
        newLevel == (scored.score \div LEVEL_UP_THRESHOLD) + 1
        pushed == pushedBy(This, scored)
        ups == eventsOfType(pushed, "levelUp")
    IN  /\ scored.level >= level
        /\ level = (score \div LEVEL_UP_THRESHOLD) + 1
        /\ IF newLevel > level
           THEN /\ scored.level = newLevel
                /\ Cardinality(ups) = 1
                /\ \A j \in ups : pushed[j].level = newLevel
           ELSE /\ scored.level = level
                /\ ups = {}

\* one scoring event has taken the score from below 1000 over at least two
\* thresholds, and one LEVEL_UP event was pushed for it
C23_Witness ==
    /\ level >= 3
    /\ Cardinality(eventsOfType(events, "match")) = 1
    /\ Cardinality(eventsOfType(events, "levelUp")) = 1
    /\ \A j \in eventsOfType(events, "levelUp") : events[j].level = level

\* the MATCH events of an event list that report runs of the well
wellMatchIn(evs) ==
    {j \in DOMAIN evs :
        /\ evs[j].type = "match"
        /\ \E m \in DOMAIN evs[j].matches : evs[j].matches[m].type # "rack"}

\* C22: at most one well MATCH event is emitted per update(): all well runs
\* found in the single scan of that tick are resolved together, gravity is
\* applied once, and a run of 3 or more that only comes into existence through
\* that gravity compaction stays in the well at the end of the tick and is
\* removed only by a later update()
C22_OneScanPerTick ==
    playing =>
        LET scanned == afterConveyor(This)
            u == update(This)
            matches == findMatches(scanned.well)
            removed == UNION {{matches[m].tiles[i] : i \in DOMAIN matches[m].tiles} :
                                 m \in DOMAIN matches}
            cleared == [col \in Cols |-> [row \in Rows |->
                          IF <<col, row>> \in removed THEN Null
                          ELSE scanned.well[col][row]]]
        IN  /\ Cardinality(wellMatchIn(u.events)) <= 1
            /\ wellMatchIn(u.events) # {} <=> matches # <<>>
            /\ \A j \in wellMatchIn(u.events) :
                  /\ u.events[j].matches = matches
                  /\ u.events[j].points = sumPoints(matches, 1)
            /\ u.well = applyGravity(cleared)
            /\ u.score = scanned.score + sumPoints(matches, 1)
            /\ findMatches(u.well) # <<>> =>
                  /\ wellMatchIn(u.events) # {}
                  /\ wellMatchIn(update(u).events) # {}
                  /\ \A m \in DOMAIN findMatches(u.well) :
                        \A i \in DOMAIN findMatches(u.well)[m].tiles :
                            LET cell == findMatches(u.well)[m].tiles[i]
                            IN  update(u).well[cell[1]][cell[2]]
                                    # u.well[cell[1]][cell[2]]

\* the tick has removed a run, and the tile that then fell has completed a run
\* that is still in the well
C22_Witness ==
    /\ playing
    /\ Cardinality(wellMatchIn(events)) = 1
    /\ dropIn(events) = {}
    /\ findMatches(well) # <<>>
    /\ score = 100

\* C24: in every playing tick the spawn timer is incremented by 1 and exactly
\* one tile is spawned (timer reset to 0, one TILE_SPAWN event) if the
\* incremented timer has reached spawnInterval(level) =
\* max(120 - (level - 1) * 8, 30), and no tile is spawned otherwise; so the
\* timer, the number of playing ticks since the last spawn, never exceeds 119
\* at the end of a tick: two consecutive spawns are at most 120 playing ticks
\* apart, also when the level changes between them
C24_SpawnTimer ==
    /\ spawnTimer \in 0 .. BASE_SPAWN_INTERVAL - 1
    /\ \A lv \in 1 .. MaxLevel :
          /\ getSpawnInterval([level |-> lv])
                = Max(BASE_SPAWN_INTERVAL - (lv - 1) * 8, MIN_SPAWN_INTERVAL)
          /\ getSpawnInterval([level |-> lv])
                \in MIN_SPAWN_INTERVAL .. BASE_SPAWN_INTERVAL
    /\ playing =>
          LET u == update(This)
              interval == Max(BASE_SPAWN_INTERVAL - (level - 1) * 8, MIN_SPAWN_INTERVAL)
              spawns == eventsOfType(u.events, "tileSpawn")
          IN  IF spawnTimer + 1 >= interval
              THEN /\ u.spawnTimer = 0
                   /\ Cardinality(spawns) = 1
                   /\ u.nextTileId = nextTileId + 1
                   /\ \A j \in spawns : u.events[j].tile = nextTileId
              ELSE /\ u.spawnTimer = spawnTimer + 1
                   /\ spawns = {}
                   /\ u.nextTileId = nextTileId

\* a match has raised the level to 2 at spawn timer 116, and the next tick has
\* spawned a tile, 117 ticks after the last one
C24_Witness ==
    /\ level = 2
    /\ spawnTimer = 0
    /\ eventsOfType(events, "tileSpawn") # {}
    /\ frameCount = OpeningLateLevelUp.frameCount + 2

\* the conveyor list that updateConveyor finds in a playing tick of game g:
\* the list of g and, in a spawn tick, the new tile behind it
found(g) == updateSpawning([g EXCEPT !.frameCount = @ + 1, !.events = <<>>]).conveyorTiles

\* the tiles of a list moved on by speed
advanced(tiles, speed) ==
    [i \in DOMAIN tiles |-> [tiles[i] EXCEPT !.position = @ + speed]]

\* the events of an event list that report a tile taken off the conveyor
resolvedIn(evs) ==
    {j \in DOMAIN evs :
        \/ evs[j].type \in {"catch", "tileFall"}
        \/ evs[j].type = "lifeLost" /\ evs[j].reason = "Rack overflow"}

\* C25: in each playing tick every in-flight tile is advanced exactly once by
\* tileSpeed(level), and every tile whose position has reached the conveyor
\* length is removed and resolved in that same tick without any tile being
\* skipped; so at the end of every update() all tiles left on the conveyor
\* have a position below the conveyor length
C25_ConveyorStep ==
    /\ \A i \in DOMAIN conveyorTiles : conveyorTiles[i].position < CONVEYOR_LENGTH
    /\ playing =>
          LET u == update(This)
              moved == advanced(found(This), getTileSpeed(This))
              kept == SelectSeq(moved, LAMBDA t : t.position < CONVEYOR_LENGTH)
              reached == SelectSeq(moved, LAMBDA t : t.position >= CONVEYOR_LENGTH)
          IN  /\ getTileSpeed(This)
                    = Min(BASE_TILE_SPEED + (level - 1) * 2, MAX_TILE_SPEED)
              /\ u.conveyorTiles = kept
              /\ Cardinality(resolvedIn(u.events)) = Len(reached)
              /\ \A i \in DOMAIN u.conveyorTiles :
                    u.conveyorTiles[i].position < CONVEYOR_LENGTH

\* the first of two tiles has been taken off the conveyor at the catch line,
\* the tile behind it has moved on in the same tick
C25_Witness ==
    /\ ticks = 1
    /\ resolvedIn(events) # {}
    /\ Len(conveyorTiles) = 1
    /\ conveyorTiles[1].id = 1
    /\ conveyorTiles[1].position \in {495 + BASE_TILE_SPEED, 495 + MAX_TILE_SPEED}

\* C28: tiles reach the catch line strictly in spawn order: in-flight tiles
\* have pairwise distinct ids, a tile with a larger id always has a strictly
\* smaller position, and a later-spawned tile never reaches the catch line in
\* the same tick as, or in an earlier tick than, an earlier-spawned one; so at
\* most one tile is resolved at the catch line per tick.  The spacing that
\* spawning gives the tiles (see spaced) is kept by every tick
C28_SpawnOrder ==
    /\ spaced(This)
    /\ \A i, j \in DOMAIN conveyorTiles :
          /\ i # j => conveyorTiles[i].id # conveyorTiles[j].id
          /\ conveyorTiles[i].id < conveyorTiles[j].id
                => conveyorTiles[i].position > conveyorTiles[j].position
    /\ playing =>
          LET u == update(This)
              moved == advanced(found(This), getTileSpeed(This))
              reached == {i \in DOMAIN moved : moved[i].position >= CONVEYOR_LENGTH}
          IN  /\ spaced(u)
              /\ Cardinality(reached) <= 1
              /\ Cardinality(resolvedIn(u.events)) <= 1
              /\ \A i \in reached : \A j \in DOMAIN moved :
                    j # i => moved[j].id > moved[i].id

\* the first of two tiles has just been resolved and the second is in flight;
\* or a tile has just been spawned behind one that is within a tick of the
\* catch line
C28_Witness ==
    /\ ticks >= 1
    /\ conveyorTiles # <<>>
    /\ \/ /\ resolvedIn(events) # {}
          /\ conveyorTiles[1].id > 0
       \/ /\ Len(conveyorTiles) >= 2
          /\ eventsOfType(events, "tileSpawn") # {}
          /\ conveyorTiles[1].position + getTileSpeed(This) >= CONVEYOR_LENGTH

\* every colour index held in the conveyor, the rack or the well of game g is
\* one of the colours of g's level
coloursInRange(g) ==
    /\ \A i \in DOMAIN g.conveyorTiles :
          g.conveyorTiles[i].colorIndex \in 0 .. getNumColors(g) - 1
    /\ \A i \in DOMAIN g.rack : g.rack[i] \in 0 .. getNumColors(g) - 1
    /\ \A col \in Cols : \A row \in Rows :
          g.well[col][row] # Null => g.well[col][row] \in 0 .. getNumColors(g) - 1

\* C26: for every non-negative integer seed nextInt(min, max) returns an
\* integer in [min, max], so every spawned tile has its column in [0, 4] and
\* its colour index in [0, numColors(level) - 1], with numColors(level) =
\* min(3 + floor(level / 3), 6), which never falls when the level rises; every
\* colour index held in the conveyor, the rack or the well is in
\* [0, numColors(level) - 1], a subset of [0, 5]
C26_DrawsInRange ==
    /\ seed \in SeedInputs
    /\ rngNext(seed) \in SeedInputs
    /\ \A min \in 0 .. 1 : \A max \in min .. NUM_COLORS - 1 :
          nextIntValue(rngNext(seed), min, max) \in min .. max
    /\ \A lv \in 1 .. MaxLevel :
          /\ getNumColors([level |-> lv]) = Min(3 + (lv \div 3), 6)
          /\ getNumColors([level |-> lv]) <= getNumColors([level |-> lv + 1])
    /\ LET spawned == spawnTile(This)
           tile == spawned.conveyorTiles[Len(spawned.conveyorTiles)]
       IN  /\ tile.column \in 0 .. WELL_COLS - 1
           /\ tile.colorIndex \in 0 .. getNumColors(This) - 1
           /\ coloursInRange(spawned)
    /\ coloursInRange(This)
    /\ getNumColors(This) <= NUM_COLORS

\* at a level with all six colours the tile just spawned has the highest
\* colour index and the highest column
C26_Witness ==
    /\ level = 9
    /\ Len(conveyorTiles) = 1
    /\ conveyorTiles[1].colorIndex = NUM_COLORS - 1
    /\ conveyorTiles[1].column = WELL_COLS - 1

\* the MATCH events of an event list that report a run of the rack
rackMatchIn(evs) ==
    {j \in DOMAIN evs :
        /\ evs[j].type = "match"
        /\ \E m \in DOMAIN evs[j].matches : evs[j].matches[m].type = "rack"}

\* C27: in every state reachable through the public operations the rack
\* contains no three contiguous equal colours once an operation has returned;
\* so every rack match removed during play is a run of exactly 3 tiles at the
\* back of the rack, awards exactly 100 points, and at most one rack MATCH
\* event is emitted per caught tile
C27_RackNoRun ==
    /\ noRackRun(rack)
    /\ noRackRun(dropFromRack(This).game.rack)
    /\ playing =>
          LET u == update(This)
              catches == eventsOfType(u.events, "catch")
              rackMatches == rackMatchIn(u.events)
          IN  /\ noRackRun(u.rack)
              /\ Cardinality(rackMatches) <= Cardinality(catches)
              /\ \A j \in rackMatches :
                    /\ Len(u.events[j].matches) = 1
                    /\ Len(u.events[j].matches[1].tiles) = 3
                    /\ u.events[j].points = 100
                    /\ j > 1 /\ u.events[j - 1].type = "catch"
                    /\ Len(rack) >= 2
                    /\ u.events[j].matches[1].tiles
                          = <<rack[Len(rack) - 1], rack[Len(rack)],
                              u.events[j - 1].colorIndex>>
                    /\ u.rack = SubSeq(rack, 1, Len(rack) - 2)

\* the tile just caught has completed a run of three behind another tile: the
\* run is gone, the other tile is left
C27_Witness ==
    /\ Cardinality(rackMatchIn(events)) = 1
    /\ eventsOfType(events, "catch") # {}
    /\ dropIn(events) = {}
    /\ Len(rack) = 1

\* the number of playing ticks within which a tile is off the conveyor: the
\* conveyor length over the base speed, rounded up
FlightTicks == (CONVEYOR_LENGTH + BASE_TILE_SPEED - 1) \div BASE_TILE_SPEED

\* C29: every spawned tile is resolved as long as the game keeps being ticked
\* in the playing state: it leaves the conveyor no later than the 67th playing
\* update() counted from and including its spawn tick, at any level and any
\* level changes in between.  Stated on the tile spawned last, whose age in
\* playing ticks is spawnTimer + 1: it has moved at least the base speed in
\* each of them, is in flight for at most 66 of them, and every tick moves
\* each tile it leaves in flight by at least the base speed
C29_FlightBound ==
    /\ FlightTicks = 67
    /\ \A lv \in 1 .. MaxLevel :
          getTileSpeed([level |-> lv]) \in BASE_TILE_SPEED .. MAX_TILE_SPEED
    /\ conveyorTiles # <<>> =>
          LET tile == conveyorTiles[Len(conveyorTiles)]
          IN  /\ tile.position >= BASE_TILE_SPEED * (spawnTimer + 1)
              /\ tile.position < CONVEYOR_LENGTH
              /\ spawnTimer + 1 <= FlightTicks - 1
    /\ playing =>
          LET u == update(This)
          IN  /\ \A i \in DOMAIN conveyorTiles : \A j \in DOMAIN u.conveyorTiles :
                    u.conveyorTiles[j].id = conveyorTiles[i].id
                        => u.conveyorTiles[j].position
                               >= conveyorTiles[i].position + BASE_TILE_SPEED
              /\ spawnTimer + 1 = FlightTicks - 1 => u.conveyorTiles = <<>>

\* the 67th playing tick from the spawn has taken the tile off the conveyor
C29_Witness ==
    /\ ticks = FlightTicks
    /\ spawnTimer = FlightTicks - 1
    /\ conveyorTiles = <<>>
    /\ resolvedIn(events) # {}
    /\ nextTileId = 1

\* C30: the host loop hands every event the engine emits to the UI event
\* handler exactly once.  Of two host ticks in a row, the second hands over
\* nothing when the engine is paused or game over in it, as no event has been
\* emitted since the first; and the DROP event of a dropFromRack() made
\* between two ticks is among the events that the next host tick hands over
C30_HandledExactlyOnce ==
    /\ LET first == appUpdate(This)
           second == appUpdate(first.game)
       IN  (first.game.paused \/ first.game.gameOver) => second.handled = <<>>
    /\ LET dropped == dropFromRack(This)
       IN  dropped.ret => dropIn(appUpdate(dropped.game).handled) # {}

====
